---------------------------- MODULE Spec2Model ----------------------------
(***************************************************************************)
(* A model of blndr: the gas mixture entity (blndr/gas.py), the two        *)
(* equation-of-state providers (blndr/gas_model/ideal.py, vanderwaals.py)  *)
(* and the fill planner make_fill_plan (blndr/blndr.py).                   *)
(*                                                                         *)
(* Numbers.  Python floats are modelled by exact rationals <<n, d>> in     *)
(* lowest terms with d > 0.  A molar quantity n is stored as the rational  *)
(* n * R_IDEAL_GASES: the gas constant R > 0 is defined in blndr/common.py *)
(* and enters every molar quantity as the same factor 1/R, so it cancels   *)
(* in every comparison, every ratio and every pressure the code computes.  *)
(***************************************************************************)
EXTENDS Integers, Sequences, FiniteSets, TLC

(***************************************************************************)
(* Bounds of the model.                                                    *)
(***************************************************************************)
\* fractions of the input mixtures are multiples of 1/FracDen
FracDen == 3
\* pressure_initial and pressure_target range over 0 .. MaxPressure (bar)
MaxPressure == 3
\* from_moles is called with molar quantities in 0 .. MaxMoles
MaxMoles == 1

(***************************************************************************)
(* Exact rational arithmetic.                                              *)
(***************************************************************************)
Abs(a) == IF a < 0 THEN -a ELSE a

RECURSIVE GCD(_, _)
GCD(a, b) == IF b = 0 THEN a ELSE GCD(b, a % b)

Rat(n, d) ==
    LET g == GCD(Abs(n), Abs(d))
        s == IF d < 0 THEN -1 ELSE 1
    IN  <<(s * n) \div g, (s * d) \div g>>

Zero == <<0, 1>>
One == <<1, 1>>
FromInt(i) == <<i, 1>>

RNeg(x) == <<-x[1], x[2]>>

RAdd(x, y) ==
    IF x[1] = 0 THEN y
    ELSE IF y[1] = 0 THEN x
    ELSE IF x[2] = y[2] THEN Rat(x[1] + y[1], x[2])
    ELSE LET g == GCD(x[2], y[2])
         IN  Rat(x[1] * (y[2] \div g) + y[1] * (x[2] \div g),
                 (x[2] \div g) * y[2])

RSub(x, y) == RAdd(x, RNeg(y))

RMul(x, y) ==
    IF x[1] = 0 \/ y[1] = 0 THEN Zero
    ELSE IF x = One THEN y
    ELSE IF y = One THEN x
    ELSE LET g1 == GCD(Abs(x[1]), y[2])
             g2 == GCD(Abs(y[1]), x[2])
         IN  <<(x[1] \div g1) * (y[1] \div g2), (x[2] \div g2) * (y[2] \div g1)>>

\* y # 0
RInv(y) == IF y[1] < 0 THEN <<-y[2], -y[1]>> ELSE <<y[2], y[1]>>
RDiv(x, y) == RMul(x, RInv(y))

RLt(x, y) ==
    IF x[2] = y[2] THEN x[1] < y[1]
    ELSE IF y[1] = 0 THEN x[1] < 0
    ELSE IF x[1] = 0 THEN 0 < y[1]
    ELSE LET g == GCD(x[2], y[2])
         IN  x[1] * (y[2] \div g) < y[1] * (x[2] \div g)
RLe(x, y) == ~RLt(y, x)
RGt(x, y) == RLt(y, x)
RGe(x, y) == ~RLt(x, y)

RMaxOf(S) == CHOOSE x \in S : \A y \in S : RLe(y, x)
RMinOf(S) == CHOOSE x \in S : \A y \in S : RLe(x, y)

\* floor of a rational, as an integer
RFloor(x) == x[1] \div x[2]

\* sum(v) of a 3-tuple, left to right from 0 as Python's sum does
Sum3(v) == RAdd(RAdd(RAdd(Zero, v[1]), v[2]), v[3])

(***************************************************************************)
(* blndr/common.py: unit conversion constants.                             *)
(***************************************************************************)
BAR_TO_PASCAL == <<100000, 1>>
LITER_TO_CUBIC_METER == <<1, 1000>>
CELSIUS_TO_KELVIN == <<27315, 100>>


(***************************************************************************)
(* blndr/gas.py: the gas mixture entity.  A GasMix is the record of its    *)
(* two stored fields, [O2 |-> rational, He |-> rational].                  *)
(***************************************************************************)
\* __post_init__: TRUE when no ValueError is raised
PostInitOk(m) ==
    /\ ~(RLt(m.O2, Zero) \/ RGt(m.O2, One))
    /\ ~(RLt(m.He, Zero) \/ RGt(m.He, One))
    /\ ~RGt(RAdd(m.O2, m.He), One)

\* the N2 property
N2Of(m) == RSub(RSub(One, m.O2), m.He)

\* the fractions property
fractions(m) == <<m.O2, m.He, N2Of(m)>>

\* from_moles: the arguments handed to cls(...), before __post_init__ runs
from_moles(O2, He, N2) ==
    LET m_tot == RAdd(RAdd(O2, He), N2)
    IN  IF m_tot = Zero THEN [O2 |-> Zero, He |-> Zero]
        ELSE [O2 |-> RDiv(O2, m_tot), He |-> RDiv(He, m_tot)]

\* the presets
AIR == [O2 |-> Rat(2095, 10000), He |-> Zero]
EAN32 == [O2 |-> Rat(32, 100), He |-> Zero]
EAN36 == [O2 |-> Rat(36, 100), He |-> Zero]
EAN40 == [O2 |-> Rat(40, 100), He |-> Zero]
PureO2 == [O2 |-> One, He |-> Zero]
PureHe == [O2 |-> Zero, He |-> One]
PureN2 == [O2 |-> Zero, He |-> Zero]

(***************************************************************************)
(* blndr/gas_model/ideal.py: p * V = n * R * T.                            *)
(***************************************************************************)
ideal_get_moles_SI(p, V, T) == RDiv(RMul(p, V), T)

ideal_get_moles(p, V, T, SI) ==
    IF SI THEN ideal_get_moles_SI(p, V, T)
    ELSE ideal_get_moles_SI(RMul(p, BAR_TO_PASCAL),
                            RMul(V, LITER_TO_CUBIC_METER),
                            RAdd(T, CELSIUS_TO_KELVIN))

ideal_get_pressure_SI(n, V, T) == RDiv(RMul(n, T), V)

ideal_get_pressure(n, V, T, SI) ==
    IF SI THEN ideal_get_pressure_SI(n, V, T)
    ELSE RDiv(ideal_get_pressure_SI(n,
                                    RMul(V, LITER_TO_CUBIC_METER),
                                    RAdd(T, CELSIUS_TO_KELVIN)),
              BAR_TO_PASCAL)

(***************************************************************************)
(* State of the three components.                                          *)
(*   presets, obj, mix_call, mix_ret : the module-level preset mixtures of *)
(*       gas.py, the GasMix a caller constructed last, the last call made  *)
(*       on the entity and what it returned or raised;                     *)
(*   eos_call, eos_ret : the last call on an equation-of-state provider    *)
(*       and what it returned or raised;                                   *)
(*   the others : the arguments and locals of one make_fill_plan call,     *)
(*       pc its position, error what it raised.                            *)
(***************************************************************************)
VARIABLES presets, obj, mix_call, mix_ret

mix_vars == <<presets, obj, mix_call, mix_ret>>

VARIABLES eos_call, eos_ret

eos_vars == <<eos_call, eos_ret>>

(***************************************************************************)
(* blndr/blndr.py: make_fill_plan.                                         *)
(***************************************************************************)
VARIABLES
    gas_target, pressure_target, gas_initial, pressure_initial,
    volume, temperature, gas_top_up,
    pc, error, steps,
    moles_initial, moles_target, moles_current,
    bleed_ratio, moles_total_top_up, moles_top_up,
    moles_O2_fill, moles_He_fill, overshoot, gas_current

plan_vars == <<gas_target, pressure_target, gas_initial, pressure_initial,
               volume, temperature, gas_top_up, pc, error, steps,
               moles_initial, moles_target, moles_current,
               bleed_ratio, moles_total_top_up, moles_top_up,
               moles_O2_fill, moles_He_fill, overshoot, gas_current>>

\* the components O2, He, N2: Python's range(3), one-based
Comp == 1 .. 3

\* every GasMix a caller can construct on the grid of multiples of 1/FracDen
Mixes ==
    {m \in {[O2 |-> Rat(a, FracDen), He |-> Rat(b, FracDen)] :
                a \in 0 .. FracDen, b \in 0 .. FracDen} : PostInitOk(m)}

Pressures == {FromInt(p) : p \in 0 .. MaxPressure}
\* vessel volumes (liters, > 0) and temperatures (Celsius)
Volumes == {FromInt(10)}
Temperatures == {FromInt(20)}

ZeroVec == <<Zero, Zero, Zero>>

InitPlan ==
    /\ gas_target \in Mixes
    /\ pressure_target \in Pressures
    /\ gas_initial \in Mixes
    /\ pressure_initial \in Pressures
    /\ volume \in Volumes
    /\ temperature \in Temperatures
    /\ gas_top_up \in Mixes
    /\ pc = "start"
    /\ error = "none"
    /\ steps = <<>>
    /\ moles_initial = ZeroVec
    /\ moles_target = ZeroVec
    /\ moles_current = ZeroVec
    /\ bleed_ratio = Zero
    /\ moles_total_top_up = Zero
    /\ moles_top_up = ZeroVec
    /\ moles_O2_fill = Zero
    /\ moles_He_fill = Zero
    /\ overshoot = FALSE
    /\ gas_current = <<>>

\* tuple(x * total for x in mix.fractions)
Scaled(mix, total) == [i \in Comp |-> RMul(fractions(mix)[i], total)]

\* lines 24-30: the initial, target and current molar vectors.  The caller
\* passes every mixture explicitly, as main.py does.
EstablishMoles ==
    /\ pc = "start"
    /\ LET moles_total_initial ==
               ideal_get_moles(pressure_initial, volume, temperature, FALSE)
           moles_total_target ==
               ideal_get_moles(pressure_target, volume, temperature, FALSE)
       IN  /\ moles_initial' = Scaled(gas_initial, moles_total_initial)
           /\ moles_target' = Scaled(gas_target, moles_total_target)
           /\ moles_current' = Scaled(gas_initial, moles_total_initial)
    /\ pc' = "prepass"
    /\ UNCHANGED <<mix_vars, eos_vars>>
    /\ UNCHANGED <<gas_target, pressure_target, gas_initial, pressure_initial,
                   volume, temperature, gas_top_up, error, steps, bleed_ratio,
                   moles_total_top_up, moles_top_up, moles_O2_fill,
                   moles_He_fill, overshoot, gas_current>>

\* line 33
ExceedsTarget(current, target) ==
    \E i \in Comp : RGt(current[i], target[i])

\* line 34
HasUnwantedGas(current, target) ==
    \E i \in Comp : RGt(current[i], Zero) /\ target[i] = Zero

\* line 38 with min() in place of max()
PrePassRatioMin(current, target) ==
    RMinOf({RDiv(current[i], target[i]) : i \in {j \in Comp : RGt(target[j], Zero)}})

\* line 38
PrePassRatio(current, target) ==
    RMaxOf({RDiv(current[i], target[i]) : i \in {j \in Comp : RGt(target[j], Zero)}})

\* lines 32-40: the current vector after the bleed pre-pass
PrePass(current, target) ==
    IF ExceedsTarget(current, target)
    THEN IF HasUnwantedGas(current, target)
         THEN ZeroVec
         ELSE [i \in Comp |->
                  RMul(current[i], RDiv(One, PrePassRatio(current, target)))]
    ELSE current

BleedPrePass ==
    /\ pc = "prepass"
    /\ moles_current' = PrePass(moles_current, moles_target)
    /\ bleed_ratio' =
          IF ExceedsTarget(moles_current, moles_target)
             /\ ~HasUnwantedGas(moles_current, moles_target)
          THEN PrePassRatio(moles_current, moles_target)
          ELSE bleed_ratio
    /\ pc' = "size"
    /\ UNCHANGED <<mix_vars, eos_vars>>
    /\ UNCHANGED <<gas_target, pressure_target, gas_initial, pressure_initial,
                   volume, temperature, gas_top_up, error, steps,
                   moles_initial, moles_target, moles_total_top_up,
                   moles_top_up, moles_O2_fill, moles_He_fill, overshoot,
                   gas_current>>

\* line 43 with the comparison reversed
NeedsNitrogenSourceReversed(target, current, top_up) ==
    RLt(RSub(target[3], current[3]), Zero) /\ N2Of(top_up) = Zero

\* line 43: the N2 deficit cannot be supplied
NeedsNitrogenSource(target, current, top_up) ==
    RGt(RSub(target[3], current[3]), Zero) /\ N2Of(top_up) = Zero

\* lines 46-50 and 69-73
TopUpTotal(target, current, top_up) ==
    IF RGt(N2Of(top_up), Zero)
    THEN RDiv(RSub(target[3], current[3]), N2Of(top_up))
    ELSE Zero

\* lines 56-57 and 76-77 without the top-up's own contribution
FillNeededNoTopUp(target, current, top_up_vec, i) ==
    RSub(target[i], current[i])

\* lines 56-57 and 76-77, for component i
FillNeeded(target, current, top_up_vec, i) ==
    RSub(RSub(target[i], current[i]), top_up_vec[i])

\* lines 43-57: top-up and pure-gas fill sizing
SizeTopUp ==
    /\ pc = "size"
    /\ IF NeedsNitrogenSource(moles_target, moles_current, gas_top_up)
       THEN /\ pc' = "error"
            /\ error' = "NoNitrogenSource"
            /\ UNCHANGED <<moles_total_top_up, moles_top_up, moles_O2_fill,
                           moles_He_fill>>
       ELSE LET total == TopUpTotal(moles_target, moles_current, gas_top_up)
                vec == Scaled(gas_top_up, total)
                fO2 == FillNeeded(moles_target, moles_current, vec, 1)
                fHe == FillNeeded(moles_target, moles_current, vec, 2)
            IN  /\ moles_total_top_up' = total
                /\ moles_top_up' = vec
                /\ moles_O2_fill' = fO2
                /\ moles_He_fill' = fHe
                /\ pc' = IF RLt(fO2, Zero) \/ RLt(fHe, Zero)
                         THEN "correct" ELSE "check"
                /\ error' = error
    /\ UNCHANGED <<mix_vars, eos_vars>>
    /\ UNCHANGED <<gas_target, pressure_target, gas_initial, pressure_initial,
                   volume, temperature, gas_top_up, steps, moles_initial,
                   moles_target, moles_current, bleed_ratio, overshoot,
                   gas_current>>

\* line 62: the components max() ranges over
CorrectionComps(current) == {i \in 1 .. 2 : RGt(current[i], Zero)}

\* line 62, defined when CorrectionComps(current) is not empty
CorrectionRatio(fill, current) ==
    RMaxOf({RDiv(RNeg(fill[i]), current[i]) : i \in CorrectionComps(current)})

\* lines 64-65
BleedBy(current, ratio) == [i \in Comp |-> RMul(current[i], RSub(One, ratio))]

\* lines 59-77: the overshoot correction; max() of an empty sequence raises
\* ValueError, a failed assert raises AssertionError
OvershootCorrection ==
    /\ pc = "correct"
    /\ overshoot' = TRUE
    /\ LET moles_fill == <<moles_O2_fill, moles_He_fill>>
       IN  IF CorrectionComps(moles_current) = {}
           THEN /\ pc' = "error"
                /\ error' = "MaxOfEmptySequence"
                /\ UNCHANGED <<bleed_ratio, moles_current, moles_total_top_up,
                               moles_top_up, moles_O2_fill, moles_He_fill>>
           ELSE LET ratio == CorrectionRatio(moles_fill, moles_current)
                IN  /\ bleed_ratio' = ratio
                    /\ IF ~RLe(ratio, One)
                       THEN /\ pc' = "error"
                            /\ error' = "AssertionError"
                            /\ UNCHANGED <<moles_current, moles_total_top_up,
                                           moles_top_up, moles_O2_fill,
                                           moles_He_fill>>
                       ELSE LET cur == BleedBy(moles_current, ratio)
                                total == TopUpTotal(moles_target, cur,
                                                    gas_top_up)
                                vec == Scaled(gas_top_up, total)
                            IN  /\ moles_current' = cur
                                /\ moles_total_top_up' = total
                                /\ moles_top_up' = vec
                                /\ moles_O2_fill' =
                                      FillNeeded(moles_target, cur, vec, 1)
                                /\ moles_He_fill' =
                                      FillNeeded(moles_target, cur, vec, 2)
                                /\ pc' = "check"
                                /\ error' = error
    /\ UNCHANGED <<mix_vars, eos_vars>>
    /\ UNCHANGED <<gas_target, pressure_target, gas_initial, pressure_initial,
                   volume, temperature, gas_top_up, steps, moles_initial,
                   moles_target, gas_current>>

\* lines 79-80
CheckFeasible ==
    /\ pc = "check"
    /\ IF RLt(moles_O2_fill, Zero) \/ RLt(moles_He_fill, Zero)
       THEN pc' = "error" /\ error' = "InfeasibleBlend"
       ELSE pc' = "bleed" /\ error' = error
    /\ UNCHANGED <<mix_vars, eos_vars>>
    /\ UNCHANGED <<gas_target, pressure_target, gas_initial, pressure_initial,
                   volume, temperature, gas_top_up, steps, moles_initial,
                   moles_target, moles_current, bleed_ratio,
                   moles_total_top_up, moles_top_up, moles_O2_fill,
                   moles_He_fill, overshoot, gas_current>>

\* the ":.2f" rendering of a pressure, as a number of hundredths: the two
\* decimal digits by long division, the remainder rounded to nearest, ties to even
Format2f(x) ==
    LET f == x[1] \div x[2]
        r0 == x[1] - f * x[2]
        d1 == (r0 * 10) \div x[2]
        r1 == r0 * 10 - d1 * x[2]
        d2 == (r1 * 10) \div x[2]
        r2 == r1 * 10 - d2 * x[2]
        h == f * 100 + d1 * 10 + d2
    IN  IF 2 * r2 < x[2] THEN h
        ELSE IF 2 * r2 > x[2] THEN h + 1
        ELSE IF h % 2 = 0 THEN h ELSE h + 1

\* ideal.get_pressure(sum(moles), volume, temperature)
PressureOf(moles) ==
    ideal_get_pressure(Sum3(moles), volume, temperature, FALSE)

\* one f-string of the plan: its tag, the gas it names, the pressure it is
\* given and the two-decimal text of that pressure
Step(tag, gas, p) == [tag |-> tag, gas |-> gas, bar |-> p, text |-> Format2f(p)]

\* line 82 with <= in place of <
BleedNeededOrEqual(current_pressure, initial_pressure) ==
    RLe(current_pressure, initial_pressure)

\* line 82
BleedNeeded(current_pressure, initial_pressure) ==
    RLt(current_pressure, initial_pressure)

\* lines 82-83
EmitBleed ==
    /\ pc = "bleed"
    /\ steps' = IF BleedNeeded(PressureOf(moles_current), pressure_initial)
                THEN Append(steps, Step("BLEED", "", PressureOf(moles_current)))
                ELSE steps
    /\ pc' = "fill"
    /\ UNCHANGED <<mix_vars, eos_vars>>
    /\ UNCHANGED <<gas_target, pressure_target, gas_initial, pressure_initial,
                   volume, temperature, gas_top_up, error, moles_initial,
                   moles_target, moles_current, bleed_ratio,
                   moles_total_top_up, moles_top_up, moles_O2_fill,
                   moles_He_fill, overshoot, gas_current>>

\* the vector a fill of component i leaves: lines 85-86 (O2), 93-94 (He)
AfterFill(current, i, fill) ==
    IF RGt(fill, Zero) THEN [current EXCEPT ![i] = RAdd(@, fill)] ELSE current

\* line 101
AfterTopUp(current, top_up_vec) ==
    [i \in Comp |-> RAdd(current[i], top_up_vec[i])]

\* lines 87, 95, 102: GasMix.from_moles(*moles_current)
MixOf(moles) == from_moles(moles[1], moles[2], moles[3])

\* lines 85-109: the fills and the top-up.  Each from_moles constructs a
\* GasMix, whose __post_init__ may raise; the call then ends there.
EmitFills ==
    /\ pc = "fill"
    /\ LET c1 == AfterFill(moles_current, 1, moles_O2_fill)
           c2 == AfterFill(c1, 2, moles_He_fill)
           c3 == AfterTopUp(c2, moles_top_up)
           s1 == IF RGt(moles_O2_fill, Zero)
                 THEN Append(steps, Step("FILL", "O2", PressureOf(c1)))
                 ELSE steps
           s2 == IF RGt(moles_He_fill, Zero)
                 THEN Append(s1, Step("FILL", "He", PressureOf(c2)))
                 ELSE s1
           s3 == Append(s2, Step("TOP-UP", "", PressureOf(c3)))
       IN  IF RGt(moles_O2_fill, Zero) /\ ~PostInitOk(MixOf(c1))
           THEN /\ moles_current' = c1
                /\ steps' = steps
                /\ gas_current' = gas_current
                /\ pc' = "error"
                /\ error' = "InvalidComposition"
           ELSE IF RGt(moles_He_fill, Zero) /\ ~PostInitOk(MixOf(c2))
           THEN /\ moles_current' = c2
                /\ steps' = s1
                /\ gas_current' = IF RGt(moles_O2_fill, Zero)
                                  THEN <<MixOf(c1)>> ELSE gas_current
                /\ pc' = "error"
                /\ error' = "InvalidComposition"
           ELSE IF ~PostInitOk(MixOf(c3))
           THEN /\ moles_current' = c3
                /\ steps' = s2
                /\ gas_current' = IF RGt(moles_He_fill, Zero) THEN <<MixOf(c2)>>
                                  ELSE IF RGt(moles_O2_fill, Zero)
                                  THEN <<MixOf(c1)>> ELSE gas_current
                /\ pc' = "error"
                /\ error' = "InvalidComposition"
           ELSE /\ moles_current' = c3
                /\ steps' = s3
                /\ gas_current' = <<MixOf(c3)>>
                /\ pc' = "done"
                /\ error' = error
    /\ UNCHANGED <<mix_vars, eos_vars>>
    /\ UNCHANGED <<gas_target, pressure_target, gas_initial, pressure_initial,
                   volume, temperature, gas_top_up, moles_initial,
                   moles_target, bleed_ratio, moles_total_top_up,
                   moles_top_up, moles_O2_fill, moles_He_fill, overshoot>>

(***************************************************************************)
(* blndr/gas.py: the operations on the entity.                             *)
(***************************************************************************)
PresetNames == {"AIR", "EAN32", "EAN36", "EAN40", "O2", "He", "N2"}

\* lines 52-58: the module-level presets, each built by GasMix(O2, He)
PresetTable ==
    [n \in PresetNames |->
        CASE n = "AIR" -> AIR
          [] n = "EAN32" -> EAN32
          [] n = "EAN36" -> EAN36
          [] n = "EAN40" -> EAN40
          [] n = "O2" -> PureO2
          [] n = "He" -> PureHe
          [] n = "N2" -> PureN2]

\* fractions a caller may hand to GasMix(O2, He): the grid, and one step
\* outside it on either side
CandidateFractions == {Rat(a, FracDen) : a \in -1 .. FracDen + 1}
\* values a caller may assign to a field: one inside and one outside [0, 1]
AssignedFractions == {Zero, Rat(FracDen + 1, FracDen)}
\* molar quantities a caller may hand to from_moles
CandidateMoles == {FromInt(a) : a \in 0 .. MaxMoles}
\* ppO2 arguments of MOD (the default 1.4, and 2.0 which the assert rejects)
CandidatePpO2 == {Rat(14, 10), FromInt(2)}
\* depth arguments of EAD: <<>> is None
CandidateDepths == {<<>>, <<FromInt(30)>>}

NoValue == <<0, 1>>
Returned(v) == [status |-> "ok", value |-> v]
Raised(e) == [status |-> e, value |-> NoValue]

\* the objects a call can be made on: a preset, or the caller's own object
Receivers == PresetNames \cup (IF obj = <<>> THEN {} ELSE {"obj"})
\* the objects a caller assigns a field of: the preset AIR, or its own object
Assignable == {"AIR"} \cup (IF obj = <<>> THEN {} ELSE {"obj"})
Receiver(r) == IF r = "obj" THEN obj[1] ELSE presets[r]

InitMix ==
    /\ presets = PresetTable
    /\ obj = <<>>
    /\ mix_call = [op |-> "none", args |-> <<>>]
    /\ mix_ret = Returned(NoValue)

\* GasMix(O2, He): the dataclass __init__ stores the fields, then lines 40-46
\* validate them; an exception leaves the caller without an object
Construct(o2, he) ==
    LET m == [O2 |-> o2, He |-> he]
    IN  /\ mix_call' = [op |-> "GasMix", args |-> <<o2, he>>]
        /\ IF PostInitOk(m)
           THEN obj' = <<m>> /\ mix_ret' = Returned(NoValue)
           ELSE obj' = obj /\ mix_ret' = Raised("InvalidComposition")
        /\ UNCHANGED presets

\* lines 10-15
FromMoles(nO2, nHe, nN2) ==
    LET m == from_moles(nO2, nHe, nN2)
    IN  /\ mix_call' = [op |-> "from_moles", args |-> <<nO2, nHe, nN2>>]
        /\ IF PostInitOk(m)
           THEN obj' = <<m>> /\ mix_ret' = Returned(NoValue)
           ELSE obj' = obj /\ mix_ret' = Raised("InvalidComposition")
        /\ UNCHANGED presets

\* lines 21-26: the outcome of m.MOD(ppO2, round)
MODOutcome(m, ppO2, round) ==
    IF ~RLt(ppO2, FromInt(2)) THEN Raised("AssertionError")
    ELSE IF m.O2 = Zero THEN Raised("ZeroDivisionError")
    ELSE LET mod == RMul(FromInt(10), RSub(RDiv(ppO2, m.O2), One))
         IN  IF round THEN Returned(FromInt(RFloor(mod))) ELSE Returned(mod)

\* lines 28-34: the outcome of m.EAD(depth, round); depth None is MOD()
EADOutcome(m, depth, round) ==
    LET d == IF depth = <<>> THEN MODOutcome(m, Rat(14, 10), TRUE)
             ELSE Returned(depth[1])
    IN  IF d.status # "ok" THEN d
        ELSE LET ead == RSub(RDiv(RMul(RAdd(d.value, FromInt(10)), N2Of(m)),
                                  Rat(7905, 10000)),
                             FromInt(10))
             IN  IF round THEN Returned(FromInt(RFloor(ead))) ELSE Returned(ead)

CallMOD(r, ppO2, round) ==
    /\ mix_call' = [op |-> "MOD", args |-> <<r, ppO2, round>>]
    /\ mix_ret' = MODOutcome(Receiver(r), ppO2, round)
    /\ UNCHANGED <<presets, obj>>

CallEAD(r, depth, round) ==
    /\ mix_call' = [op |-> "EAD", args |-> <<r, depth, round>>]
    /\ mix_ret' = EADOutcome(Receiver(r), depth, round)
    /\ UNCHANGED <<presets, obj>>

\* lines 36-38
ReadFractions(r) ==
    /\ mix_call' = [op |-> "fractions", args |-> <<r>>]
    /\ mix_ret' = Returned(fractions(Receiver(r)))
    /\ UNCHANGED <<presets, obj>>

\* lines 48-49: the three percentages, each rendered ":.2f"
ToStr(r) ==
    /\ mix_call' = [op |-> "str", args |-> <<r>>]
    /\ mix_ret' = Returned([i \in Comp |->
                      Format2f(RMul(fractions(Receiver(r))[i], FromInt(100)))])
    /\ UNCHANGED <<presets, obj>>

\* lines 5-8: the dataclass is not frozen, so an assignment to a field of a
\* GasMix stores the value; __post_init__ runs at construction only
SetField(r, field, v) ==
    /\ mix_call' = [op |-> "setattr", args |-> <<r, field, v>>]
    /\ mix_ret' = Returned(NoValue)
    /\ IF r = "obj"
       THEN obj' = <<[obj[1] EXCEPT ![field] = v]>> /\ presets' = presets
       ELSE presets' = [presets EXCEPT ![r][field] = v] /\ obj' = obj

(***************************************************************************)
(* blndr/gas_model/vanderwaals.py.  The Van der Waals pressure and the     *)
(* root brentq finds are not rational: a result is kept as the term naming *)
(* the SI state it is computed from.                                       *)
(***************************************************************************)
Exact(q) == [kind |-> "exact", q |-> q, of |-> <<>>]
Term(kind, of) == [kind |-> kind, q |-> Zero, of |-> of]

\* lines 83-113, called with all four arguments
vdw_get_moles_SI(p, V, T, fr) == Returned(Term("vdw_root", <<p, V, T, fr>>))

\* lines 74-81: with SI set, _get_moles_SI is called with three arguments
\* and has four required parameters, a TypeError
vdw_get_moles(p, V, T, fr, SI) ==
    IF SI THEN Raised("TypeError")
    ELSE vdw_get_moles_SI(RMul(p, BAR_TO_PASCAL),
                          RMul(V, LITER_TO_CUBIC_METER),
                          RAdd(T, CELSIUS_TO_KELVIN), fr)

\* lines 50-72
vdw_get_pressure_SI(n, V, T, fr) == Term("vdw_pressure", <<n, V, T, fr>>)

\* lines 41-48
vdw_get_pressure(n, V, T, fr, use_SI) ==
    IF use_SI THEN Returned(vdw_get_pressure_SI(n, V, T, fr))
    ELSE Returned(Term("over_BAR_TO_PASCAL",
                       <<vdw_get_pressure_SI(n, RMul(V, LITER_TO_CUBIC_METER),
                                             RAdd(T, CELSIUS_TO_KELVIN), fr)>>))

(***************************************************************************)
(* Calls on the providers.  A caller states (p, V, T) in bar, liter and    *)
(* Celsius, or, with the SI flag, the same state in pascal, cubic meter    *)
(* and Kelvin.                                                             *)
(***************************************************************************)
EosPressures == {FromInt(p) : p \in 1 .. MaxPressure}
EosVolumes == {FromInt(10), FromInt(12)}
EosTemperatures == {FromInt(0), FromInt(20)}
EosMoles == {FromInt(n) : n \in 1 .. MaxPressure}
\* compositions handed to the Van der Waals provider
EosMixes == {AIR, PureHe}

\* the arguments of a call for the state (x, V, T): x is a pressure in bar
\* for get_moles (convert it) and a molar quantity for get_pressure
Args(x, V, T, SI, convert_x) ==
    IF SI THEN <<IF convert_x THEN RMul(x, BAR_TO_PASCAL) ELSE x,
                 RMul(V, LITER_TO_CUBIC_METER), RAdd(T, CELSIUS_TO_KELVIN)>>
    ELSE <<x, V, T>>

InitEos ==
    /\ eos_call = [provider |-> "none", fn |-> "none", args |-> <<>>,
                   fractions |-> <<>>, SI |-> FALSE]
    /\ eos_ret = Returned(Exact(Zero))

IdealGetMoles(p, V, T, SI) ==
    LET a == Args(p, V, T, SI, TRUE)
    IN  /\ eos_call' = [provider |-> "ideal", fn |-> "get_moles", args |-> a,
                        fractions |-> <<>>, SI |-> SI]
        /\ eos_ret' = Returned(Exact(ideal_get_moles(a[1], a[2], a[3], SI)))

IdealGetPressure(n, V, T, SI) ==
    LET a == Args(n, V, T, SI, FALSE)
    IN  /\ eos_call' = [provider |-> "ideal", fn |-> "get_pressure", args |-> a,
                        fractions |-> <<>>, SI |-> SI]
        /\ eos_ret' = Returned(Exact(ideal_get_pressure(a[1], a[2], a[3], SI)))

VdwGetMoles(p, V, T, mix, SI) ==
    LET a == Args(p, V, T, SI, TRUE)
    IN  /\ eos_call' = [provider |-> "vanderwaals", fn |-> "get_moles",
                        args |-> a, fractions |-> fractions(mix), SI |-> SI]
        /\ eos_ret' = vdw_get_moles(a[1], a[2], a[3], fractions(mix), SI)

VdwGetPressure(n, V, T, mix, SI) ==
    LET a == Args(n, V, T, SI, FALSE)
    IN  /\ eos_call' = [provider |-> "vanderwaals", fn |-> "get_pressure",
                        args |-> a, fractions |-> fractions(mix), SI |-> SI]
        /\ eos_ret' = vdw_get_pressure(a[1], a[2], a[3], fractions(mix), SI)

(***************************************************************************)
(* The specifications: one per component, over the same variables.         *)
(***************************************************************************)
vars == <<mix_vars, eos_vars, plan_vars>>

\* a planner that has not been called
IdlePlan ==
    /\ gas_target = AIR
    /\ pressure_target = Zero
    /\ gas_initial = AIR
    /\ pressure_initial = Zero
    /\ volume = FromInt(10)
    /\ temperature = FromInt(20)
    /\ gas_top_up = AIR
    /\ pc = "idle"
    /\ error = "none"
    /\ steps = <<>>
    /\ moles_initial = ZeroVec
    /\ moles_target = ZeroVec
    /\ moles_current = ZeroVec
    /\ bleed_ratio = Zero
    /\ moles_total_top_up = Zero
    /\ moles_top_up = ZeroVec
    /\ moles_O2_fill = Zero
    /\ moles_He_fill = Zero
    /\ overshoot = FALSE
    /\ gas_current = <<>>

\* make_fill_plan, called once with every valid input of the bounds
Init == InitPlan /\ InitMix /\ InitEos

Next ==
    \/ EstablishMoles
    \/ BleedPrePass
    \/ SizeTopUp
    \/ OvershootCorrection
    \/ CheckFeasible
    \/ EmitBleed
    \/ EmitFills

Spec == Init /\ [][Next]_vars

\* the gas mixture entity under every sequence of its operations
MixConstruct ==
    /\ \E o2 \in CandidateFractions, he \in CandidateFractions : Construct(o2, he)
    /\ UNCHANGED <<eos_vars, plan_vars>>

MixFromMoles ==
    /\ \E a \in CandidateMoles, b \in CandidateMoles, c \in CandidateMoles :
          FromMoles(a, b, c)
    /\ UNCHANGED <<eos_vars, plan_vars>>

MixMOD ==
    /\ \E r \in Receivers, ppO2 \in CandidatePpO2, round \in BOOLEAN :
          CallMOD(r, ppO2, round)
    /\ UNCHANGED <<eos_vars, plan_vars>>

MixEAD ==
    /\ \E r \in Receivers, depth \in CandidateDepths : CallEAD(r, depth, TRUE)
    /\ UNCHANGED <<eos_vars, plan_vars>>

MixFractions ==
    /\ \E r \in Receivers : ReadFractions(r)
    /\ UNCHANGED <<eos_vars, plan_vars>>

MixStr ==
    /\ \E r \in Receivers : ToStr(r)
    /\ UNCHANGED <<eos_vars, plan_vars>>

MixSetField ==
    /\ \E r \in Assignable, field \in {"O2", "He"}, v \in AssignedFractions :
          SetField(r, field, v)
    /\ UNCHANGED <<eos_vars, plan_vars>>

InitGas == IdlePlan /\ InitMix /\ InitEos

NextGas ==
    \/ MixConstruct
    \/ MixFromMoles
    \/ MixMOD
    \/ MixEAD
    \/ MixFractions
    \/ MixStr
    \/ MixSetField

SpecGas == InitGas /\ [][NextGas]_vars

\* the equation-of-state providers under every call
EosIdealGetMoles ==
    /\ \E p \in EosPressures, V \in EosVolumes, T \in EosTemperatures,
          SI \in BOOLEAN : IdealGetMoles(p, V, T, SI)
    /\ UNCHANGED <<mix_vars, plan_vars>>

EosIdealGetPressure ==
    /\ \E n \in EosMoles, V \in EosVolumes, T \in EosTemperatures,
          SI \in BOOLEAN : IdealGetPressure(n, V, T, SI)
    /\ UNCHANGED <<mix_vars, plan_vars>>

EosVdwGetMoles ==
    /\ \E p \in EosPressures, V \in EosVolumes, T \in EosTemperatures,
          mix \in EosMixes, SI \in BOOLEAN : VdwGetMoles(p, V, T, mix, SI)
    /\ UNCHANGED <<mix_vars, plan_vars>>

EosVdwGetPressure ==
    /\ \E n \in EosMoles, V \in EosVolumes, T \in EosTemperatures,
          mix \in EosMixes, SI \in BOOLEAN : VdwGetPressure(n, V, T, mix, SI)
    /\ UNCHANGED <<mix_vars, plan_vars>>

InitEosSpec == IdlePlan /\ InitMix /\ InitEos

NextEos ==
    \/ EosIdealGetMoles
    \/ EosIdealGetPressure
    \/ EosVdwGetMoles
    \/ EosVdwGetPressure

SpecEos == InitEosSpec /\ [][NextEos]_vars

(***************************************************************************)
(* Properties of make_fill_plan, checked under Spec.                       *)
(***************************************************************************)
VecEq(a, b) == \A i \in Comp : a[i] = b[i]
LastStep == steps[Len(steps)]
Emitting == pc \in {"fill", "done"}

\* C1, as stated: a returned plan ends with the running vector equal to the
\* target vector, so with the target's fractions, and with a TopUp step that
\* reports pressure_target
C1_ConservationAsStated ==
    pc = "done" =>
        /\ VecEq(moles_current, moles_target)
        /\ fractions(gas_current[1]) = fractions(gas_target)
        /\ LastStep.tag = "TOP-UP"
        /\ LastStep.bar = pressure_target

\* C1, amended: a returned plan ends with the running vector equal to the
\* target vector component by component and with a TopUp step that reports
\* pressure_target; its fractions are the target's when pressure_target > 0,
\* and those of the zero/zero mixture when pressure_target = 0
C1_Conservation ==
    pc = "done" =>
        /\ VecEq(moles_current, moles_target)
        /\ RGt(pressure_target, Zero) =>
               fractions(gas_current[1]) = fractions(gas_target)
        /\ pressure_target = Zero => gas_current[1] = [O2 |-> Zero, He |-> Zero]
        /\ LastStep.tag = "TOP-UP"
        /\ LastStep.bar = pressure_target

\* a plan with a bleed, a helium fill and a positive top-up has been returned
C1_Witness ==
    /\ pc = "done"
    /\ RGt(pressure_target, Zero)
    /\ RGt(moles_total_top_up, Zero)
    /\ RGt(moles_He_fill, Zero)
    /\ steps[1].tag = "BLEED"

\* what the emission has added to component i of the current vector so far
Added(i) ==
    IF pc # "done" THEN Zero
    ELSE RAdd(IF i = 1 /\ RGt(moles_O2_fill, Zero) THEN moles_O2_fill
              ELSE IF i = 2 /\ RGt(moles_He_fill, Zero) THEN moles_He_fill
              ELSE Zero,
              moles_top_up[i])

\* the bled-down current vector the emission started from
BledVector == [i \in Comp |-> RSub(moles_current[i], Added(i))]

\* the steps the plan must hold at this point of the emission
ExpectedSteps ==
    (IF RLt(PressureOf(BledVector), pressure_initial)
     THEN <<<<"BLEED", "">>>> ELSE <<>>)
    \o (IF pc = "done" /\ RGt(moles_O2_fill, Zero)
        THEN <<<<"FILL", "O2">>>> ELSE <<>>)
    \o (IF pc = "done" /\ RGt(moles_He_fill, Zero)
        THEN <<<<"FILL", "He">>>> ELSE <<>>)
    \o (IF pc = "done" THEN <<<<"TOP-UP", "">>>> ELSE <<>>)

\* C2: the plan is [Bleed]? [Fill O2]? [Fill He]? TopUp, in this order; Bleed
\* is present exactly when the bled-down vector's pressure is strictly below
\* pressure_initial (and reports that pressure), Fill O2 exactly when
\* fill_O2 > 0, Fill He exactly when fill_He > 0, and TopUp always, last
C2_StepOrdering ==
    Emitting =>
        /\ [i \in 1 .. Len(steps) |-> <<steps[i].tag, steps[i].gas>>]
               = ExpectedSteps
        /\ (steps # <<>> /\ steps[1].tag = "BLEED") =>
               steps[1].bar = PressureOf(BledVector)

\* a plan with all four steps has been returned
C2_Witness == pc = "done" /\ Len(steps) = 4

\* C3, as stated: once Stage 4 has found a negative fill, the only error the
\* call can end with is InfeasibleBlend
C3_InfeasibleBlendOnly ==
    (overshoot /\ pc = "error") => error = "InfeasibleBlend"

\* C4, as stated: the Stage 5 correction ratio never exceeds 1 and the
\* assertion on it never fails
C4_CorrectionRatioBound ==
    overshoot =>
        /\ error # "AssertionError"
        /\ error # "MaxOfEmptySequence" => RLe(bleed_ratio, One)

\* the current vector after the Stage 2 pre-pass
AfterPrePass == PrePass(moles_initial, moles_target)

\* C5: an N2 deficit after the pre-pass with a top-up gas without N2 ends the
\* call with NoNitrogenSource and no step; a plan returned with such a top-up
\* gas has a zero top-up quantity and the target's N2 content
C5_NoNitrogenSource ==
    /\ (/\ pc \notin {"idle", "start", "prepass", "size"}
        /\ N2Of(gas_top_up) = Zero
        /\ RGt(RSub(moles_target[3], AfterPrePass[3]), Zero))
           => (pc = "error" /\ error = "NoNitrogenSource" /\ steps = <<>>)
    /\ (pc = "done" /\ N2Of(gas_top_up) = Zero)
           => /\ moles_total_top_up = Zero
              /\ moles_top_up = ZeroVec
              /\ moles_current[3] = moles_target[3]

\* the call failed for want of N2, from a vessel that was not empty
C5_Witness ==
    /\ pc = "error"
    /\ error = "NoNitrogenSource"
    /\ RGt(pressure_initial, Zero)

\* C8, as stated: after Stage 2 and Stage 5 every component of the current
\* vector is within 0 and what the vessel held initially, and the Stage 5
\* factor 1 - correction_ratio is within [0, 1]
C8_BleedOnlyRemoves ==
    /\ pc \in {"size", "correct", "check", "bleed", "fill"} =>
           \A i \in Comp : /\ RGe(moles_current[i], Zero)
                           /\ RLe(moles_current[i], moles_initial[i])
    /\ (overshoot /\ error = "none") =>
           /\ RGe(RSub(One, bleed_ratio), Zero)
           /\ RLe(RSub(One, bleed_ratio), One)

\* Stage 2 took the proportional branch
Proportional ==
    /\ ExceedsTarget(moles_initial, moles_target)
    /\ ~HasUnwantedGas(moles_initial, moles_target)

\* the current/target ratio of component i before the pre-pass
RatioOf(i) == RDiv(moles_initial[i], moles_target[i])
Wanted == {i \in Comp : RGt(moles_target[i], Zero)}
Highest == {i \in Wanted : \A k \in Wanted : RLe(RatioOf(k), RatioOf(i))}

\* C9, as stated: after the proportional bleed every component is >= 0, the
\* highest-ratio component equals its target and every other component is
\* strictly below its target
C9_ProportionalBleedAsStated ==
    (pc = "size" /\ Proportional) =>
        /\ \A i \in Comp : RGe(moles_current[i], Zero)
        /\ \E i \in Highest :
              /\ moles_current[i] = moles_target[i]
              /\ \A j \in Comp \ {i} : RLt(moles_current[j], moles_target[j])

\* C9, amended: after the proportional bleed every component is >= 0, every
\* component whose ratio is the highest equals its target, and every other
\* component is at or below its target: strictly below when its target is
\* positive, equal to it (both zero) when its target is zero
C9_ProportionalBleed ==
    (pc = "size" /\ Proportional) =>
        /\ \A i \in Comp : RGe(moles_current[i], Zero)
        /\ Highest # {}
        /\ \A i \in Highest : moles_current[i] = moles_target[i]
        /\ \A j \in Wanted \ Highest : RLt(moles_current[j], moles_target[j])
        /\ \A j \in Comp \ Wanted :
              moles_current[j] = Zero /\ moles_target[j] = Zero

\* the proportional bleed left one component equal to and another strictly
\* below its target
C9_Witness ==
    /\ pc = "size"
    /\ Proportional
    /\ \E j \in Wanted \ Highest : RGt(moles_current[j], Zero)

\* the steps after the optional Bleed step
FillSteps == SelectSeq(steps, LAMBDA st : st.tag # "BLEED")

\* C10, as stated: in a returned plan the top-up quantity and every
\* component of the top-up vector are >= 0, the pressures after the optional
\* Bleed step do not decrease, and no step reports more than pressure_target
C10_TopUpNonNegative ==
    pc = "done" =>
        /\ RGe(moles_total_top_up, Zero)
        /\ \A i \in Comp : RGe(moles_top_up[i], Zero)
        /\ \A k \in 1 .. Len(FillSteps) - 1 :
              RLe(FillSteps[k].bar, FillSteps[k + 1].bar)
        /\ \A k \in 1 .. Len(steps) : RLe(steps[k].bar, pressure_target)

(***************************************************************************)
(* The gas mixture entity, checked under SpecGas.                          *)
(***************************************************************************)
InUnit(x) == RGe(x, Zero) /\ RLe(x, One)

MixInvariant(m) ==
    /\ InUnit(m.O2)
    /\ InUnit(m.He)
    /\ RLe(RAdd(m.O2, m.He), One)
    /\ InUnit(N2Of(m))

\* C6, as stated: a GasMix is immutable once constructed: the presets are
\* never changed, every preset and every object a caller holds has O2 and He
\* in [0, 1], O2 + He <= 1 and so N2 in [0, 1]; and a construction from
\* fractions fails with InvalidComposition exactly when the fractions violate
\* one of these
C6_GasMixInvariant ==
    /\ presets = PresetTable
    /\ \A n \in PresetNames : MixInvariant(presets[n])
    /\ obj # <<>> => MixInvariant(obj[1])
    /\ mix_call.op = "GasMix" =>
           (mix_ret.status = "InvalidComposition"
               <=> ~(/\ InUnit(mix_call.args[1])
                     /\ InUnit(mix_call.args[2])
                     /\ RLe(RAdd(mix_call.args[1], mix_call.args[2]), One)))

(***************************************************************************)
(* The providers, checked under SpecEos.                                   *)
(***************************************************************************)
\* the default-unit call for the state an SI call was made on
DefaultUnitCall ==
    LET p == RDiv(eos_call.args[1], BAR_TO_PASCAL)
        V == RDiv(eos_call.args[2], LITER_TO_CUBIC_METER)
        T == RSub(eos_call.args[3], CELSIUS_TO_KELVIN)
    IN  IF eos_call.provider = "ideal"
        THEN Returned(Exact(ideal_get_moles(p, V, T, FALSE)))
        ELSE vdw_get_moles(p, V, T, eos_call.fractions, FALSE)

\* C7, as stated: get_moles with the SI flag returns, for either provider,
\* the molar quantity the default-unit call returns on the equivalent inputs
C7_SIFlag ==
    (eos_call.fn = "get_moles" /\ eos_call.SI) =>
        /\ eos_ret.status = "ok"
        /\ eos_ret = DefaultUnitCall

=============================================================================
